---- MODULE Spec2Model ----
(***************************************************************************)
(* GoodWe SEMS portal client: the authenticated fetcher (SemsApi), the     *)
(* poll-loop tick (SemsProcessor.data_task), the two parse_data            *)
(* implementations and the backup loader (BackupLoader.load_data).         *)
(***************************************************************************)
EXTENDS Integers, Sequences, FiniteSets, TLC

VARIABLES
    \* ---- SemsApi / SemsProcessor (sems-client.py)
    token,          \* SemsApi._token: 0 is None, n > 0 is the n-th token issued
    nextTok,        \* number of tokens the portal has issued so far
    rejected,       \* tokens for which the portal answered a query with a failure
    pc,             \* position of the running getData call: idle / login / query
    retries,        \* maxTokenRetries of the current getData frame
    renew,          \* renewToken of the current getData frame
    caller,         \* "api": getData called directly, "task": called by data_task
    call,           \* record of what the running (or last) outermost call did
    calls,          \* number of outermost getData calls started
    capture,        \* lines of the save_json capture file
    sink,           \* Points written to InfluxDB by data_task
    tick,           \* record of what the last finished data_task tick did
    save_json_dir,  \* config.save_json_dir is set
    \* ---- parse_data, live and replay, on one document
    doc,            \* the source document under study
    liveRes,        \* outcome of SemsProcessor.parse_data(doc)
    replayRes,      \* outcome of sems_utils.parse_data(json.loads(json.dumps(doc)))
    \* ---- BackupLoader.load_data (backup-loader.py)
    lines,          \* the input file: a sequence of text lines
    idx,            \* number of lines the for loop has consumed
    n_records,      \* load_data's counter
    loaded,         \* Points written to InfluxDB by load_data, with their line number
    loader,         \* "running" / "returned"
    stoppedAt,      \* line number whose exception ended the loop, 0 if none
    dry_run         \* config.dry_run

apiVars    == <<token, nextTok, rejected, pc, retries, renew, caller, call, calls,
                capture, sink, tick, save_json_dir>>
parseVars  == <<doc, liveRes, replayRes>>
loaderVars == <<lines, idx, n_records, loaded, loader, stoppedAt, dry_run>>
vars       == <<apiVars, parseVars, loaderVars>>

----------------------------------------------------------------------------
(* Bounds of the model *)

\* a power-flow magnitude well above the noise threshold, in watts
BigWatts == 150
\* outermost getData calls (direct calls and ticks) in one behaviour
MaxCalls == 2
\* largest maxTokenRetries argument a direct getData call is given
MaxRetriesArg == 3
\* lines of the file given to load_data
MaxLines == 3

(* Program constants *)

\* sems_utils.py line 63: abs(out_data[key]) < 10
NoiseThreshold == 10
\* sems-client.py line 101: maxTokenRetries=2
DefaultMaxTokenRetries == 2

----------------------------------------------------------------------------
(* JSON values as Python sees them.  A value is [t |-> kind, v |-> number]: *)
(*   null   None                                                          *)
(*   str    a string without the "(W)" suffix; v = 0 the empty string       *)
(*   strW   "<number>(W)"; v is the number in tenths ("9.7(W)" is 97)       *)
(*   badW   "<text>(W)" whose text is not a number                          *)
(*   time   "03/14/2024 HH:MM:00"; v = HH*100 + MM, the digits as written   *)
(*   int    a JSON integer v                                                *)
(*   float  a JSON real; v is the number in tenths                          *)

Val(t, v) == [t |-> t, v |-> v]
Null      == Val("null", 0)

IsStr(x) == x.t \in {"str", "strW", "badW", "time"}

\* Python truthiness: not x
Falsy(x) ==
    \/ x.t = "null"
    \/ x.t = "str" /\ x.v = 0
    \/ x.t \in {"int", "float"} /\ x.v = 0

\* int(float(s)): truncation toward zero of a number given in tenths
IntOfTenths(n) == IF n >= 0 THEN n \div 10 ELSE -((-n) \div 10)

Abs(n) == IF n < 0 THEN -n ELSE n

\* Python n * d for an int n.  The result is a value, or Val("raise", 0) for TypeError.
\*   int * int -> int, int * float -> float, int * str -> the string repeated n times
IntMul(n, d) ==
    CASE d.t = "int"   -> Val("int", n * d.v)
      [] d.t = "float" -> Val("float", n * d.v)
      [] IsStr(d)      -> Val("str", IF n > 0 /\ ~(d.t = "str" /\ d.v = 0) THEN 1 ELSE 0)
      [] OTHER         -> Val("raise", 0)

\* Python f * d for a float f given in tenths; d is the already negated direction
FloatMul(f, d) ==
    CASE d.t = "int"   -> Val("float", f * d.v)
      [] d.t = "float" -> Val("float", (f * d.v) \div 10)
      [] OTHER         -> Val("raise", 0)

\* datetime.strptime(info_time, "%m/%d/%Y %H:%M:%S").timestamp(), then int(): seconds
\* of the local day.  None raises TypeError, any other string ValueError.
StrptimeOk(x)  == x.t = "time"
StrptimeErr(x) == IF x.t = "null" THEN "TypeError" ELSE "ValueError"
Timestamp(x)   == (x.v \div 100) * 3600 + (x.v % 100) * 60

----------------------------------------------------------------------------
(* Documents: [none |-> the document is None, at |-> path -> value].  A path *)
(* that is missing from the document and a path holding JSON null both make *)
(* jmespath.search return None.                                             *)

Paths == {"info.time", "energeStatisticsCharts.sum", "inverter[0].d.pac",
          "powerflow.pv", "powerflow.load", "powerflow.grid",
          "powerflow.pvStatus", "powerflow.loadStatus", "powerflow.gridStatus"}

NoneDoc == [none |-> TRUE, at |-> [p \in Paths |-> Null]]

search(path, d) == IF d.none \/ path \notin Paths THEN Null ELSE d.at[path]

\* METRICS of sems_utils.py in dictionary order.  The fifteen entries that are not
\* power-flow entries all take the same path through parse_data; two of them stand
\* for the group, one before and one after the power-flow entries.
MetricKeys == <<"d_pv_sum", "p_pv", "p_load", "p_grid", "pac">>

METRICS ==
    [k \in {"d_pv_sum", "p_pv", "p_load", "p_grid", "pac"} |->
        CASE k = "d_pv_sum" -> "energeStatisticsCharts.sum"
          [] k = "p_pv"     -> "powerflow.pv"
          [] k = "p_load"   -> "powerflow.load"
          [] k = "p_grid"   -> "powerflow.grid"
          [] k = "pac"      -> "inverter[0].d.pac"]

\* value.startswith("powerflow")
IsPowerflow(path) == path \in {"powerflow.pv", "powerflow.load", "powerflow.grid"}

PowerflowKeys == {k \in DOMAIN METRICS : IsPowerflow(METRICS[k])}

\* self.config["values"] of sems-client.py: the configured table, taken to be the
\* same table as METRICS
ConfigValues == METRICS

\* value + "Status"
StatusPath(path) == CASE path = "powerflow.pv"   -> "powerflow.pvStatus"
                      [] path = "powerflow.load" -> "powerflow.loadStatus"
                      [] path = "powerflow.grid" -> "powerflow.gridStatus"
                      [] OTHER                   -> "none"

----------------------------------------------------------------------------
(* A record under construction: out_data, the exception raised so far, and  *)
(* the keys for which the "Type error" diagnostic was printed.              *)

EmptyOut == [k \in {} |-> Null]
Put(out, k, x) == [j \in (DOMAIN out) \cup {k} |-> IF j = k THEN x ELSE out[j]]
Del(out, k)    == [j \in (DOMAIN out) \ {k} |-> out[j]]

Acc(raised, out, diag) == [raised |-> raised, out |-> out, diag |-> diag]

----------------------------------------------------------------------------
(* sems_utils.parse_data: the replay path *)

\* abs(out_data[key]) < 10
IsNoise_off(n) == Abs(n) < NoiseThreshold - 1
IsNoise(n) == Abs(n) < NoiseThreshold

\* lines 75-77: a value whose type is not int is reported and deleted
TypeCheck(acc, key, x) ==
    IF x.t # "int"
    THEN Acc("none", Del(acc.out, key), acc.diag \cup {key})
    ELSE Acc("none", Put(acc.out, key, x), acc.diag)

\* lines 71-73: only the grid value is multiplied, by powerflow.loadStatus
GridDirection(path, n, d) ==
    IF path = "powerflow.grid"
    THEN IntMul(n, search("powerflow.loadStatus", d))
    ELSE Val("int", n)

\* lines 53-77: the body of the loop for a power-flow entry
PowerflowEntry(acc, key, path, raw, d) ==
    IF Falsy(raw) THEN acc
    ELSE IF ~IsStr(raw) THEN Acc("AttributeError", acc.out, acc.diag)
    ELSE IF raw.t = "badW" THEN Acc("ValueError", acc.out, acc.diag)
    ELSE IF raw.t = "strW" THEN
        LET n == IntOfTenths(raw.v) IN
        IF IsNoise(n) THEN Acc("none", Put(acc.out, key, Val("int", 0)), acc.diag)
        ELSE LET m == GridDirection(path, n, d) IN
             IF m.t = "raise" THEN Acc("TypeError", acc.out, acc.diag)
             ELSE TypeCheck(acc, key, m)
    ELSE TypeCheck(acc, key, raw)

\* lines 48-77: one iteration of the loop over METRICS
ReplayEntry(acc, key, d) ==
    LET path == METRICS[key]
        raw  == search(path, d)
    IN  IF acc.raised # "none" THEN acc
        ELSE IF IsPowerflow(path) THEN PowerflowEntry(acc, key, path, raw, d)
        ELSE Acc("none", Put(acc.out, key, raw), acc.diag)

RECURSIVE ReplayLoop(_, _, _)
ReplayLoop(acc, i, d) ==
    IF i > Len(MetricKeys) THEN acc
    ELSE ReplayLoop(ReplayEntry(acc, MetricKeys[i], d), i + 1, d)

Result(raised, ts, out, diag) == [raised |-> raised, ts |-> ts, out |-> out, diag |-> diag]

\* lines 39-79: the timestamp is parsed first, then the entries
parse_data(d) ==
    LET info_time == search("info.time", d) IN
    IF ~StrptimeOk(info_time) THEN Result(StrptimeErr(info_time), 0, EmptyOut, {})
    ELSE LET acc == ReplayLoop(Acc("none", EmptyOut, {}), 1, d) IN
         IF acc.raised # "none" THEN Result(acc.raised, 0, EmptyOut, acc.diag)
         ELSE Result("none", Timestamp(info_time), acc.out, acc.diag)

----------------------------------------------------------------------------
(* SemsProcessor.parse_data: the live path *)

\* line 201: flow_direction *= -1
Negate(x) ==
    CASE x.t = "int"   -> Val("int", -x.v)
      [] x.t = "float" -> Val("float", -x.v)
      [] IsStr(x)      -> Val("str", 0)
      [] OTHER         -> Val("raise", 0)

\* lines 194-202: one iteration of the loop over config["values"]
LiveEntry(acc, key, d) ==
    LET path == ConfigValues[key]
        raw  == search(path, d)
    IN  IF acc.raised # "none" THEN acc
        ELSE IF ~IsPowerflow(path) THEN Acc("none", Put(acc.out, key, raw), acc.diag)
        ELSE IF ~IsStr(raw) THEN Acc("AttributeError", acc.out, acc.diag)
        ELSE IF raw.t \notin {"strW", "badW"} THEN Acc("none", Put(acc.out, key, raw), acc.diag)
        ELSE LET dir == Negate(search(StatusPath(path), d)) IN
             IF dir.t = "raise" THEN Acc("TypeError", acc.out, acc.diag)
             ELSE IF raw.t = "badW" THEN Acc("ValueError", acc.out, acc.diag)
             ELSE LET m == FloatMul(raw.v, dir) IN
                  IF m.t = "raise" THEN Acc("TypeError", acc.out, acc.diag)
                  ELSE Acc("none", Put(acc.out, key, m), acc.diag)

RECURSIVE LiveLoop(_, _, _)
LiveLoop(acc, i, d) ==
    IF i > Len(MetricKeys) THEN acc
    ELSE LiveLoop(LiveEntry(acc, MetricKeys[i], d), i + 1, d)

\* lines 188-209: the entries first, then the timestamp
live_parse_data(d) ==
    LET acc       == LiveLoop(Acc("none", EmptyOut, {}), 1, d)
        info_time == search("info.time", d)
    IN  IF acc.raised # "none" THEN Result(acc.raised, 0, EmptyOut, {})
        ELSE IF ~StrptimeOk(info_time) THEN Result(StrptimeErr(info_time), 0, EmptyOut, {})
        ELSE Result("none", Timestamp(info_time), acc.out, {})

----------------------------------------------------------------------------
(* The capture file and json: a line is [k |-> kind, d |-> document].        *)
(*   json   the text json.dumps wrote for a document that is not None        *)
(*   null   the text "null"                                                  *)
(*   empty  the text "" (a blank line), which is not JSON                    *)
(*   quote  the text of the JSON empty string, two double quotes             *)
(*   bad    text that is not JSON                                            *)

Line(k, d) == [k |-> k, d |-> d]

\* json.dumps(sems_data), lines 215-216
dumps(d) == IF d.none THEN Line("null", NoneDoc) ELSE Line("json", d)

\* json.loads(json_data): [ok |-> parsed, falsy |-> not value, d |-> the document]
loads(l) ==
    CASE l.k = "json"  -> [ok |-> TRUE,  falsy |-> FALSE, d |-> [none |-> FALSE, at |-> l.d.at]]
      [] l.k = "null"  -> [ok |-> TRUE,  falsy |-> TRUE,  d |-> NoneDoc]
      [] l.k = "quote" -> [ok |-> TRUE,  falsy |-> TRUE,  d |-> NoneDoc]
      [] OTHER         -> [ok |-> FALSE, falsy |-> TRUE,  d |-> NoneDoc]

\* the live record as a Point: point.field(key, out_data[key]) for every key
Point(ts, out) == [time |-> ts, fields |-> out]

----------------------------------------------------------------------------
(* Initial values of the three parts *)

Pending == Result("pending", 0, EmptyOut, {})

\* arg, renewArg: the arguments of the outermost call; nLogin, nQuery: login and
\* query POSTs it issued; nRelogin: login POSTs issued after a failed query;
\* staleSent: a query POST carried a token the portal had already rejected;
\* outcome: "running", "data", or why None was returned
NewCall(m, r, tok) ==
    [arg |-> m, renewArg |-> r, tokenBefore |-> tok, nLogin |-> 0, nQuery |-> 0,
     nRelogin |-> 0, staleSent |-> FALSE, outcome |-> "running", data |-> NoneDoc]
NoCall == [NewCall(DefaultMaxTokenRetries, FALSE, 0) EXCEPT !.outcome = "none"]
\* n: ticks finished; raised: the exception the last tick's except clause logged
NoTick == [n |-> 0, raised |-> "none"]

ApiIdle ==
    /\ token = 0            \* __init__: self._token = None
    /\ nextTok = 0
    /\ rejected = {}
    /\ pc = "idle"
    /\ retries = 0
    /\ renew = FALSE
    /\ caller = "api"
    /\ call = NoCall
    /\ calls = 0
    /\ capture = <<>>
    /\ sink = <<>>
    /\ tick = NoTick

ParseIdle ==
    /\ doc = NoneDoc
    /\ liveRes = Pending
    /\ replayRes = Pending

LoaderIdle ==
    /\ lines = <<>>
    /\ idx = 0
    /\ n_records = 0
    /\ loaded = <<>>
    /\ loader = "returned"
    /\ stoppedAt = 0
    /\ dry_run = FALSE

----------------------------------------------------------------------------
(* The two parse_data implementations applied to one document *)

\* raw values of a power-flow path
RawFlows ==
    { Null, Val("str", 0), Val("str", 1), Val("badW", 0), Val("int", BigWatts),
      Val("strW", 0), Val("strW", 97), Val("strW", -57), Val("strW", 100),
      Val("strW", BigWatts * 10 + 7), Val("strW", -(BigWatts * 10)) }

\* values of powerflow.loadStatus
Directions == { Null, Val("int", 1), Val("int", -1), Val("str", 1), Val("float", 10) }

\* values of powerflow.pvStatus and powerflow.gridStatus
Statuses == { Val("int", 1), Val("int", -1) }

Times  == { Val("time", 805), Null, Val("str", 1) }
Plains == { Null, Val("float", 2305) }

\* the document with the given values at its paths
MkDoc(time, plain, pv, load, grid, pvS, loadS, gridS) ==
    [none |-> FALSE,
     at   |-> [p \in Paths |->
                CASE p = "info.time"                  -> time
                  [] p = "energeStatisticsCharts.sum" -> plain
                  [] p = "inverter[0].d.pac"          -> plain
                  [] p = "powerflow.pv"               -> pv
                  [] p = "powerflow.load"             -> load
                  [] p = "powerflow.grid"             -> grid
                  [] p = "powerflow.pvStatus"         -> pvS
                  [] p = "powerflow.loadStatus"       -> loadS
                  [] p = "powerflow.gridStatus"       -> gridS]]

InitParse ==
    /\ ApiIdle /\ save_json_dir = TRUE
    /\ LoaderIdle
    /\ \E time \in Times, plain \in Plains, pv \in RawFlows, load \in RawFlows,
          grid \in RawFlows, pvS \in Statuses, loadS \in Directions, gridS \in Statuses :
            doc = MkDoc(time, plain, pv, load, grid, pvS, loadS, gridS)
    /\ liveRes = Pending
    /\ replayRes = Pending

\* data_task line 223: the live path parses the document it fetched
ParseLive ==
    /\ liveRes = Pending
    /\ liveRes' = live_parse_data(doc)
    /\ UNCHANGED <<doc, replayRes, apiVars, loaderVars>>

\* save_json line 216, then load_data lines 48-51: the replay path parses the line
\* that save_json wrote for the same document
ParseReplay ==
    /\ replayRes = Pending
    /\ replayRes' = parse_data(loads(dumps(doc)).d)
    /\ UNCHANGED <<doc, liveRes, apiVars, loaderVars>>

NextParse == ParseLive \/ ParseReplay

SpecParse == InitParse /\ [][NextParse]_vars

----------------------------------------------------------------------------
(* SemsApi.getData and SemsProcessor.data_task *)

\* documents the portal returns as the data payload
GoodDoc ==
    MkDoc(Val("time", 805), Val("float", 2305), Val("strW", BigWatts * 10 + 7),
          Val("strW", 97), Val("strW", 100), Val("int", 1), Val("int", -1), Val("int", 1))
NullPvDoc  == [GoodDoc EXCEPT !.at["powerflow.pv"] = Null]
NoTimeDoc  == [GoodDoc EXCEPT !.at["info.time"] = Null]
ServerDocs == {GoodDoc, NullPvDoc, NoTimeDoc}

\* data_task lines 222-233, after getData returned d (NoneDoc when it returned None):
\* save_json, parse_data, the Point and the write, inside try / except Exception
TaskTail(d) ==
    \E fileOk \in BOOLEAN, sinkOk \in BOOLEAN :
        LET r == live_parse_data(d) IN
        /\ capture' = IF save_json_dir /\ fileOk THEN Append(capture, dumps(d)) ELSE capture
        /\ sink' = IF (save_json_dir => fileOk) /\ r.raised = "none" /\ sinkOk
                   THEN Append(sink, Point(r.ts, r.out)) ELSE sink
        /\ tick' = [n |-> tick.n + 1,
                    raised |-> IF save_json_dir /\ ~fileOk THEN "OSError"
                               ELSE IF r.raised # "none" THEN r.raised
                               ELSE IF ~sinkOk THEN "ApiException" ELSE "none"]

\* getData returns: lines 148 (the data) and 150-151 (None, after logging)
Finish(c, outcome, d, who) ==
    /\ pc' = "idle"
    /\ call' = [c EXCEPT !.outcome = outcome, !.data = d]
    /\ IF who = "task" THEN TaskTail(d) ELSE UNCHANGED <<capture, sink, tick>>

\* line 106: maxTokenRetries <= 0
OutOfBudget_lt(m) == m < 0
OutOfBudget(m) == m <= 0

\* line 145: maxTokenRetries=maxTokenRetries - 1
NextBudget_same(m) == m
NextBudget(m) == m - 1

\* line 111: self._token is None or renewToken
NeedsLogin(tok, r) == tok = 0 \/ r

\* lines 103-113, the entry of a getData frame with arguments m, r: with the budget
\* exhausted OutOfRetries is raised and caught, else the frame goes on to the login
\* or to the query
Enter_loginFirst(m, r, c, tok, who) ==
    /\ retries' = m
    /\ renew' = r
    /\ IF NeedsLogin(tok, r)
       THEN /\ pc' = "login"
            /\ call' = c
            /\ UNCHANGED <<capture, sink, tick>>
       ELSE IF OutOfBudget(m) THEN Finish(c, "OutOfRetries", NoneDoc, who)
       ELSE /\ pc' = "query"
            /\ call' = c
            /\ UNCHANGED <<capture, sink, tick>>
Enter(m, r, c, tok, who) ==
    /\ retries' = m
    /\ renew' = r
    /\ IF OutOfBudget(m) THEN Finish(c, "OutOfRetries", NoneDoc, who)
       ELSE /\ pc' = IF NeedsLogin(tok, r) THEN "login" ELSE "query"
            /\ call' = c
            /\ UNCHANGED <<capture, sink, tick>>

\* a direct call getData(renewToken=r, maxTokenRetries=m)
GetDataCall(m, r) ==
    /\ pc = "idle"
    /\ calls < MaxCalls
    /\ calls' = calls + 1
    /\ caller' = "api"
    /\ Enter(m, r, NewCall(m, r, token), token, "api")
    /\ UNCHANGED <<token, nextTok, rejected, save_json_dir, parseVars, loaderVars>>

\* a tick of the scheduler: data_task line 221 calls getData() with the defaults
DataTask ==
    /\ pc = "idle"
    /\ calls < MaxCalls
    /\ calls' = calls + 1
    /\ caller' = "task"
    /\ Enter(DefaultMaxTokenRetries, FALSE,
             NewCall(DefaultMaxTokenRetries, FALSE, token), token, "task")
    /\ UNCHANGED <<token, nextTok, rejected, save_json_dir, parseVars, loaderVars>>

\* the login POST was issued by this call
Logged(c) == [c EXCEPT !.nLogin = @ + 1,
                       !.nRelogin = IF c.nQuery > 0 THEN @ + 1 ELSE @]

\* login, lines 60-63 and 65-95: the portal issues a token
LoginOk ==
    /\ pc = "login"
    /\ nextTok' = nextTok + 1
    /\ token' = nextTok + 1
    /\ pc' = "query"
    /\ call' = Logged(call)
    /\ UNCHANGED <<rejected, retries, renew, caller, calls, capture, sink, tick,
                   save_json_dir, parseVars, loaderVars>>

\* login, lines 62-63 and 97-99: getLoginToken returns None, which login stores;
\* formatting self._token['api'] then raises TypeError, caught at line 150
LoginFail_keepsToken ==
    /\ pc = "login"
    /\ token' = token
    /\ Finish(Logged(call), "LoginFailed", NoneDoc, caller)
    /\ UNCHANGED <<nextTok, rejected, retries, renew, caller, calls,
                   save_json_dir, parseVars, loaderVars>>
LoginFail ==
    /\ pc = "login"
    /\ token' = 0
    /\ Finish(Logged(call), "LoginFailed", NoneDoc, caller)
    /\ UNCHANGED <<nextTok, rejected, retries, renew, caller, calls,
                   save_json_dir, parseVars, loaderVars>>

\* the query POST was issued by this call, with the token held
Queried(c, tok) == [c EXCEPT !.nQuery = @ + 1,
                             !.staleSent = @ \/ tok \in rejected]

\* lines 131-148: the response says success and carries data
QuerySuccess(d) ==
    /\ pc = "query"
    /\ Finish(Queried(call, token), "data", d, caller)
    /\ UNCHANGED <<token, nextTok, rejected, retries, renew, caller, calls,
                   save_json_dir, parseVars, loaderVars>>

\* lines 139-146: msg is not "success" or data is null; getData calls itself with
\* renewToken=True and one retry less
QueryFailure ==
    /\ pc = "query"
    /\ rejected' = rejected \cup {token}
    /\ Enter(NextBudget(retries), TRUE, Queried(call, token), token, caller)
    /\ UNCHANGED <<token, nextTok, caller, calls, save_json_dir, parseVars, loaderVars>>

\* lines 131-137 and 150-151: the POST or response.json() raises
QueryException ==
    /\ pc = "query"
    /\ Finish(Queried(call, token), "Transport", NoneDoc, caller)
    /\ UNCHANGED <<token, nextTok, rejected, retries, renew, caller, calls,
                   save_json_dir, parseVars, loaderVars>>

Init ==
    /\ ApiIdle
    /\ save_json_dir \in BOOLEAN
    /\ ParseIdle
    /\ LoaderIdle

Next ==
    \/ \E m \in -1 .. MaxRetriesArg, r \in BOOLEAN : GetDataCall(m, r)
    \/ DataTask
    \/ LoginOk
    \/ LoginFail
    \/ \E d \in ServerDocs : QuerySuccess(d)
    \/ QueryFailure
    \/ QueryException

Spec == Init /\ [][Next]_vars

\* every network call returns or raises within _RequestTimeout, so a started call
\* always takes its next step
SpecFair ==
    Spec /\ WF_vars(LoginOk \/ LoginFail \/ (\E d \in ServerDocs : QuerySuccess(d))
                    \/ QueryFailure \/ QueryException)

----------------------------------------------------------------------------
(* BackupLoader.load_data *)

\* the lines a file may hold: a captured good document, a captured document without
\* info.time, a blank line, text that is not JSON, the lines save_json writes for
\* None, and the JSON empty string
LineSet ==
    { Line("json", GoodDoc), Line("json", NoTimeDoc), Line("empty", NoneDoc),
      Line("bad", NoneDoc), Line("null", NoneDoc), Line("quote", NoneDoc) }

\* line 63: the except clause encloses the whole for loop, so an exception raised
\* while line i is processed ends the loop; line 66 returns n_records
LoopRaises(i) ==
    /\ loader' = "returned"
    /\ stoppedAt' = i
    /\ idx' = i

\* the for loop moves on to the next line, and returns after the last one
LoopContinues(i) ==
    /\ loader' = IF i = Len(lines) THEN "returned" ELSE "running"
    /\ stoppedAt' = stoppedAt
    /\ idx' = i

\* lines 47-61: one iteration of the for loop, on line idx + 1
LoadLine ==
    /\ loader = "running"
    /\ idx < Len(lines)
    /\ LET i == idx + 1
           p == loads(lines[i])
           r == parse_data(p.d)
       IN  \/ /\ ~p.ok                                  \* json.loads raises
              /\ LoopRaises(i)
              /\ UNCHANGED <<n_records, loaded>>
           \/ /\ p.ok /\ p.falsy                         \* if not sems_data: continue
              /\ LoopContinues(i)
              /\ UNCHANGED <<n_records, loaded>>
           \/ /\ p.ok /\ ~p.falsy /\ r.raised # "none"   \* parse_data raises
              /\ LoopRaises(i)
              /\ UNCHANGED <<n_records, loaded>>
           \/ /\ p.ok /\ ~p.falsy /\ r.raised = "none" /\ dry_run
              /\ n_records' = n_records + 1
              /\ LoopContinues(i)
              /\ UNCHANGED loaded
           \/ /\ p.ok /\ ~p.falsy /\ r.raised = "none" /\ ~dry_run
              /\ n_records' = n_records + 1
              /\ loaded' = Append(loaded, [line |-> i, point |-> Point(r.ts, r.out)])
              /\ LoopContinues(i)
           \/ /\ p.ok /\ ~p.falsy /\ r.raised = "none" /\ ~dry_run
              /\ n_records' = n_records + 1              \* influx_writer.write raises
              /\ LoopRaises(i)
              /\ UNCHANGED loaded
    /\ UNCHANGED <<lines, dry_run, apiVars, parseVars>>

InitReplay ==
    /\ ApiIdle /\ save_json_dir = TRUE
    /\ ParseIdle
    /\ \E n \in 0 .. MaxLines : lines \in [1 .. n -> LineSet]
    /\ dry_run \in BOOLEAN
    /\ idx = 0
    /\ n_records = 0
    /\ loaded = <<>>
    /\ loader = IF lines = <<>> THEN "returned" ELSE "running"
    /\ stoppedAt = 0

NextReplay == LoadLine

SpecReplay == InitReplay /\ [][NextReplay]_vars

----------------------------------------------------------------------------
(* Properties of getData and data_task, under Spec and SpecFair *)

Returned == calls > 0 /\ pc = "idle"

\* C1, as stated: a getData call with maxTokenRetries = 1 whose query response reports
\* failure performs exactly one re-login and exactly one retried query POST (two query
\* POSTs in all) before it fails with OutOfRetries.
OneRetryWithBudgetOne ==
    (Returned /\ call.arg = 1 /\ call.outcome = "OutOfRetries")
        => (call.nRelogin = 1 /\ call.nQuery = 2)

\* C1, amended: a getData call with maxTokenRetries = n >= 1 that ends in OutOfRetries
\* has issued exactly n query POSTs and n - 1 re-logins.  With n = 1 the first failed
\* query is followed by OutOfRetries at once: no re-login, no retried query POST.  One
\* re-login and one retried query POST is the case n = 2.
RetriesMatchBudget ==
    (Returned /\ call.arg >= 1 /\ call.outcome = "OutOfRetries")
        => (call.nQuery = call.arg /\ call.nRelogin = call.arg - 1)

BudgetOneExhausted ==
    /\ Returned /\ call.arg = 1 /\ call.outcome = "OutOfRetries"
    /\ call.nQuery = 1 /\ call.nRelogin = 0 /\ token \in rejected

\* C2: a getData call with maxTokenRetries <= 0 returns None through OutOfRetries, in
\* every session state and for both values of renewToken, without a login POST or a
\* query POST, and leaves the token as it was.
ZeroBudgetNoNetwork ==
    (calls > 0 /\ call.arg <= 0)
        => /\ pc = "idle"
           /\ call.outcome = "OutOfRetries"
           /\ call.nLogin = 0 /\ call.nQuery = 0
           /\ token = call.tokenBefore

ZeroBudgetWithTokenAndRenew ==
    /\ Returned /\ call.arg = 0 /\ call.renewArg
    /\ call.tokenBefore > 0 /\ token = call.tokenBefore
    /\ call.outcome = "OutOfRetries"

\* C3: for every maxTokenRetries >= 0 and every behaviour of the portal, a getData call
\* issues at most maxTokenRetries query POSTs and terminates; a query POST after the
\* first is issued only by the recursion after a failure response, so while the call
\* runs the POSTs issued so far all failed and number maxTokenRetries minus the budget
\* that is left.
QueryBudget ==
    (calls > 0 /\ call.arg >= 0)
        => /\ call.nQuery <= call.arg
           /\ call.nLogin <= call.nQuery + 1
           /\ pc # "idle" => (retries >= 1 /\ call.nQuery = call.arg - retries)
           /\ pc = "query" /\ call.nQuery > 0 => renew

GetDataTerminates == []QueryBudget /\ ((pc # "idle") ~> (pc = "idle"))

BudgetUsedUp ==
    /\ Returned /\ call.arg = MaxRetriesArg /\ call.nQuery = MaxRetriesArg
    /\ call.outcome = "Transport"

\* C8: a tick whose getData returns None has no further effect: nothing is appended to
\* the capture file and no Point is written.
FailedTickLeavesNoTrace ==
    [][(caller = "task" /\ pc # "idle" /\ pc' = "idle" /\ call'.outcome # "data")
          => (capture' = capture /\ sink' = sink)]_vars

\* C9: after any getData call the session holds no token the portal has rejected, and
\* no query POST is ever sent with a token that was rejected before.
RejectedTokenDiscarded ==
    /\ Returned => token \notin rejected
    /\ ~call.staleSent

\* the call began with a login: no token was held, or renewToken was given
StartsWithLogin == call.tokenBefore = 0 \/ call.renewArg

\* C11: when a getData call that starts without a token, or with renewToken, has its
\* login fail, it returns None without having issued a query POST and leaves no token
\* held; any failed login leaves no token held.  A query POST is never issued without
\* a token, and a call that starts without a token (or with renewToken) has logged in
\* before each of its query POSTs, so the call after a failed login logs in first.
FailedLoginLeavesNoSession ==
    /\ (Returned /\ call.outcome = "LoginFailed")
          => /\ token = 0
             /\ (StartsWithLogin /\ call.nLogin = 1) => call.nQuery = 0
    /\ pc = "query" => token > 0
    /\ (calls > 0 /\ StartsWithLogin) => call.nLogin >= call.nQuery

ForcedReloginFailed ==
    /\ Returned /\ call.outcome = "LoginFailed"
    /\ call.renewArg /\ call.tokenBefore > 0
    /\ call.nLogin = 1 /\ call.nQuery = 0
    /\ token = 0

----------------------------------------------------------------------------
(* Properties of the two parse_data implementations, under SpecParse *)

Raw(k) == search(METRICS[k], doc)

\* the same number, whether Python holds it as an int or as a float
SameValue(x, y) ==
    \/ x = y
    \/ x.t = "int" /\ y.t = "float" /\ 10 * x.v = y.v
    \/ x.t = "float" /\ y.t = "int" /\ x.v = 10 * y.v

\* C5: the record and the timestamp of the live path equal the record and the
\* timestamp the replay path produces for the captured line of the same document.
LiveEqualsReplay ==
    (liveRes.raised = "none" /\ replayRes.raised = "none")
        => /\ liveRes.ts = replayRes.ts
           /\ DOMAIN liveRes.out = DOMAIN replayRes.out
           /\ \A k \in DOMAIN liveRes.out \cap DOMAIN replayRes.out :
                  SameValue(liveRes.out[k], replayRes.out[k])

\* C6: a key whose path does not resolve in the document has no entry in the record
\* parse_data returns, so no key of the record maps to None.
UnresolvedKeysOmitted ==
    /\ replayRes.raised = "none"
          => \A k \in DOMAIN METRICS : Raw(k) = Null => k \notin DOMAIN replayRes.out
    /\ liveRes.raised = "none"
          => \A k \in DOMAIN METRICS : Raw(k) = Null => k \notin DOMAIN liveRes.out

\* "<n>(W)" with |n| < 10
SmallWatts(x) == x.t = "strW" /\ Abs(x.v) < 10 * NoiseThreshold

\* C7: a power-flow entry (pv, load or grid) whose raw value is "<n>(W)" with |n| < 10
\* is kept in the record of sems_utils.parse_data with the value 0, whatever
\* powerflow.loadStatus holds; the direction is not looked up, so when all three
\* entries are such values parse_data returns for every loadStatus.
NoiseIsZero ==
    /\ replayRes.raised = "none"
          => \A k \in PowerflowKeys :
                SmallWatts(Raw(k))
                    => (k \in DOMAIN replayRes.out /\ replayRes.out[k] = Val("int", 0))
    /\ ( /\ replayRes # Pending
         /\ StrptimeOk(search("info.time", doc))
         /\ \A k \in PowerflowKeys : SmallWatts(Raw(k)) )
          => replayRes.raised = "none"

NoisyGridWithoutDirection ==
    /\ replayRes.raised = "none"
    /\ Raw("p_grid") = Val("strW", 97)
    /\ Raw("p_pv") = Val("strW", -57)
    /\ search("powerflow.loadStatus", doc) = Null
    /\ replayRes.out["p_grid"] = Val("int", 0)
    /\ replayRes.out["p_pv"] = Val("int", 0)

\* C10: sems_utils.parse_data never raises because of a power-flow value or its
\* direction: with a well-formed info.time it returns, a value that is not a
\* "<number>(W)" string or a direction that is absent or not an integer makes the
\* entry be dropped, and every power-flow entry of the record is an integer.
PowerflowNeverRaises ==
    (replayRes # Pending /\ StrptimeOk(search("info.time", doc)))
        => /\ replayRes.raised = "none"
           /\ \A k \in PowerflowKeys \cap DOMAIN replayRes.out : replayRes.out[k].t = "int"

----------------------------------------------------------------------------
(* Properties of load_data, under SpecReplay *)

\* a line that json.loads parses to a non-empty document which parse_data accepts;
\* load_data counts such a line as processed before it hands the Point to the sink
Valid(l) == loads(l).ok /\ ~loads(l).falsy /\ parse_data(loads(l).d).raised = "none"

ValidLines == {i \in 1 .. Len(lines) : Valid(lines[i])}

\* the lines for which the sink took the Point: stoppedAt is a valid line only when
\* the sink rejected it
Accepted == {i \in ValidLines : i # stoppedAt}

\* C4: a blank line, or a line whose processing raises (malformed JSON, missing
\* info.time, sink rejection), does not stop the replay: when load_data returns, every
\* valid line has been processed and counted, every valid line the sink did not reject
\* has been written (unless dry_run), and no other line has been written.
BadLinesDoNotStopReplay ==
    loader = "returned"
        => /\ n_records = Cardinality(ValidLines)
           /\ ~dry_run => {loaded[j].line : j \in 1 .. Len(loaded)} = Accepted

====
